---- MODULE Spec2Model ----
(***************************************************************************)
(* Model of scripts/release.ts: the release orchestration routine main(),  *)
(* its helpers (inc, run, dryRun, runIfNotDry, step, updateVersion,        *)
(* publishPackage) and the top-level main().catch handler.                 *)
(*                                                                         *)
(* A JavaScript string is modelled as a sequence of tokens (each token a   *)
(* TLA+ string): "1.2.4-beta.0" is <<"1",".","2",".","4","-","beta",".",   *)
(* "0">>.  Concatenation is \o, so formatting and parsing are real         *)
(* conversions on token sequences.                                         *)
(***************************************************************************)
EXTENDS Integers, Sequences, FiniteSets, TLC

\* ------------------------------------------------------------- bounds
\* largest numeral the tokenizer recognises as a numeric component
MaxNumeral == 6
\* numeric prerelease counters of the initial manifest versions: 0..MaxPreNum
MaxPreNum == 1
\* number of words of the publish command's stderr
MaxStderrLen == 2

\* ------------------------------------------------------------- strings
S(t) == <<t>>

NoStr == <<>>

RECURSIVE Join(_, _)
\* Array.prototype.join: the elements separated by sep
Join(parts, sep) ==
  IF parts = <<>> THEN <<>>
  ELSE IF Len(parts) = 1 THEN parts[1]
  ELSE parts[1] \o sep \o Join(Tail(parts), sep)

\* String.prototype.includes / RegExp match of a literal: needle occurs in hay
Includes(hay, needle) ==
  \E i \in 1..(Len(hay) - Len(needle) + 1) :
     SubSeq(hay, i, i + Len(needle) - 1) = needle

\* an answer missing from the prompt result (the prompt was cancelled), as
\* a template literal renders it
Undefined == <<"undefined">>

\* template-literal conversion of a boolean
BoolStr(b) == IF b THEN S("true") ELSE S("false")

\* ------------------------------------------------------------- semver
Numerals == {ToString(n) : n \in 0..MaxNumeral}

IsNum(t) == t \in Numerals

NumVal(t) == CHOOSE n \in 0..MaxNumeral : ToString(n) = t

\* alphanumeric prerelease identifiers of the model, in ASCII order
Idents == <<"alpha", "beta", "rc">>

IsIdent(t) == \E i \in 1..Len(Idents) : Idents[i] = t

IdentRank(t) == CHOOSE i \in 1..Len(Idents) : Idents[i] = t

NullVer == [major |-> -1, minor |-> -1, patch |-> -1, prerelease |-> <<>>]

\* new SemVer(version): optional "v", three numeric components, then an
\* optional "-" followed by dot-separated identifiers; NullVer when the
\* string does not match
Parse(s) ==
  LET body == IF Len(s) > 0 /\ s[1] = "v" THEN Tail(s) ELSE s
      rest == IF Len(body) > 5 THEN SubSeq(body, 6, Len(body)) ELSE <<>>
      mainOk == /\ Len(body) >= 5
                /\ IsNum(body[1]) /\ body[2] = "." /\ IsNum(body[3])
                /\ body[4] = "." /\ IsNum(body[5])
      preOk == \/ rest = <<>>
               \/ /\ Len(rest) % 2 = 0
                  /\ rest[1] = "-"
                  /\ \A i \in 1..Len(rest) :
                       IF i % 2 = 0 THEN IsNum(rest[i]) \/ IsIdent(rest[i])
                       ELSE i = 1 \/ rest[i] = "."
  IN IF mainOk /\ preOk
     THEN [major |-> NumVal(body[1]), minor |-> NumVal(body[3]),
           patch |-> NumVal(body[5]),
           prerelease |-> [i \in 1..(Len(rest) \div 2) |-> rest[2 * i]]]
     ELSE NullVer

\* SemVer.format
Format(v) ==
  <<ToString(v.major), ".", ToString(v.minor), ".", ToString(v.patch)>>
    \o (IF v.prerelease = <<>> THEN <<>>
        ELSE <<"-">> \o Join([i \in 1..Len(v.prerelease) |-> S(v.prerelease[i])], S(".")))

\* semver.valid(version) is not null
Valid(s) == Parse(s) # NullVer

Sign(a, b) == IF a < b THEN -1 ELSE IF a > b THEN 1 ELSE 0

\* semver compareIdentifiers: numeric identifiers compare numerically and
\* sort below alphanumeric ones, which compare in ASCII order
CompareIdentifiers(a, b) ==
  IF IsNum(a) /\ IsNum(b) THEN Sign(NumVal(a), NumVal(b))
  ELSE IF IsNum(a) THEN -1
  ELSE IF IsNum(b) THEN 1
  ELSE Sign(IdentRank(a), IdentRank(b))

RECURSIVE ComparePreFrom(_, _)
\* the identifier-by-identifier loop of SemVer.comparePre
ComparePreFrom(p, q) ==
  IF p = <<>> /\ q = <<>> THEN 0
  ELSE IF q = <<>> THEN 1
  ELSE IF p = <<>> THEN -1
  ELSE IF CompareIdentifiers(p[1], q[1]) # 0 THEN CompareIdentifiers(p[1], q[1])
  ELSE ComparePreFrom(Tail(p), Tail(q))

\* SemVer.comparePre: a version without prerelease is the greater one
ComparePre(p, q) ==
  IF p # <<>> /\ q = <<>> THEN -1
  ELSE IF p = <<>> /\ q # <<>> THEN 1
  ELSE IF p = <<>> /\ q = <<>> THEN 0
  ELSE ComparePreFrom(p, q)

\* SemVer.compare on parsed versions
Compare(a, b) ==
  IF a.major # b.major THEN Sign(a.major, b.major)
  ELSE IF a.minor # b.minor THEN Sign(a.minor, b.minor)
  ELSE IF a.patch # b.patch THEN Sign(a.patch, b.patch)
  ELSE ComparePre(a.prerelease, b.prerelease)

\* semver.gt on version strings
Gt(s, t) == Valid(s) /\ Valid(t) /\ Compare(Parse(s), Parse(t)) = 1

\* index of the last numeric identifier of a prerelease, 0 when there is none
LastNumeric(p) ==
  IF \E i \in 1..Len(p) : IsNum(p[i])
  THEN CHOOSE i \in 1..Len(p) :
         IsNum(p[i]) /\ \A j \in (i + 1)..Len(p) : ~IsNum(p[j])
  ELSE 0

\* SemVer.inc('pre', identifier): bump the last numeric identifier (or push
\* 0), then reset to <identifier>.0 unless the prerelease already starts
\* with identifier followed by a number
IncPre(v, identifier) ==
  LET p0 == v.prerelease
      k == LastNumeric(p0)
      p1 == IF p0 = <<>> THEN <<"0">>
            ELSE IF k = 0 THEN Append(p0, "0")
            ELSE [p0 EXCEPT ![k] = ToString(NumVal(p0[k]) + 1)]
      p2 == IF CompareIdentifiers(p1[1], identifier) = 0
            THEN (IF Len(p1) < 2 \/ ~IsNum(p1[2]) THEN <<identifier, "0">> ELSE p1)
            ELSE <<identifier, "0">>
  IN [v EXCEPT !.prerelease = p2]

\* SemVer.inc('patch')
IncPatch(v) ==
  [v EXCEPT !.patch = IF v.prerelease = <<>> THEN @ + 1 ELSE @,
            !.prerelease = <<>>]

\* SemVer.inc('minor')
IncMinor(v) ==
  [v EXCEPT !.minor = IF v.patch # 0 \/ v.prerelease = <<>> THEN @ + 1 ELSE @,
            !.patch = 0,
            !.prerelease = <<>>]

\* SemVer.inc('major')
IncMajor(v) ==
  [v EXCEPT !.major = IF v.minor # 0 \/ v.patch # 0 \/ v.prerelease = <<>>
                      THEN @ + 1 ELSE @,
            !.minor = 0,
            !.patch = 0,
            !.prerelease = <<>>]

\* SemVer.inc(release, identifier)
SemVer_inc(v, release, identifier) ==
  CASE release = "patch" -> IncPatch(v)
    [] release = "minor" -> IncMinor(v)
    [] release = "major" -> IncMajor(v)
    [] release = "prepatch" ->
         IncPre(IncPatch([v EXCEPT !.prerelease = <<>>]), identifier)
    [] release = "preminor" ->
         IncPre([v EXCEPT !.prerelease = <<>>, !.patch = 0, !.minor = @ + 1],
                identifier)
    [] release = "premajor" ->
         IncPre([v EXCEPT !.prerelease = <<>>, !.patch = 0, !.minor = 0,
                          !.major = @ + 1], identifier)
    [] release = "prerelease" ->
         IncPre(IF v.prerelease = <<>> THEN IncPatch(v) ELSE v, identifier)

\* semver.inc(version, release, identifier): null for an unparsable version;
\* the caller's template literal renders null as "null"
semver_inc(s, release, identifier) ==
  IF Valid(s) THEN Format(SemVer_inc(Parse(s), release, identifier))
  ELSE S("null")

\* ------------------------------------------------------------- inputs
\* manifest names: a scoped plugin name and a plain one
PkgNames == { <<"@tencent/", "tds-vue-plugin-", "demo">>, <<"demo">> }

Cores == { <<1, 2, 3>>, <<1, 2, 0>>, <<1, 0, 0>> }

Prereleases ==
  {<<>>} \cup {<<Idents[i]>> : i \in 1..Len(Idents)}
         \cup {<<Idents[i], ToString(n)>> : i \in 1..Len(Idents), n \in 0..MaxPreNum}
         \cup {<<ToString(n)>> : n \in 0..MaxPreNum}

\* versions the manifest may hold at startup; the last one is not a semver
CurrentVersions ==
  {Format([major |-> c[1], minor |-> c[2], patch |-> c[3], prerelease |-> p]) :
     c \in Cores, p \in Prereleases} \cup { <<"x">> }

\* strings an operator may type or pass as the positional argument
VersionInputs ==
  { <<"2", ".", "0", ".", "0">>,
    <<"2", ".", "0", ".", "0", "-", "beta", ".", "1">>,
    <<"v", "2", ".", "0", ".", "0">>,
    <<"01", ".", "2", ".", "3">>,
    <<"2", ".", "0">> }

RECURSIVE WordSeqs(_)
WordSeqs(n) ==
  IF n = 0 THEN {<<>>}
  ELSE WordSeqs(n - 1) \cup
       {Append(w, x) : w \in {u \in WordSeqs(n - 1) : Len(u) = n - 1},
                       x \in {"previously", "published"}}

\* what the registry client may print on stderr when it fails
Stderrs == {Join([i \in 1..Len(w) |-> S(w[i])], S(" ")) : w \in WordSeqs(MaxStderrLen)}

\* ------------------------------------------------------------- state
VARIABLES
  args,          \* minimist result: _ (positional), dry, skipBuild, tag
  pkg,           \* the manifest as loaded by require at startup
  manifest,      \* version field of the manifest file on disk
  writes,        \* number of writeFileSync calls on the manifest
  pc,            \* position of main(), or the state of its promise
  release,       \* the choice picked in the select prompt
  targetVersion,
  tag,           \* the constant tag of main, as every use renders it
  stdout,        \* captured output of git diff
  cmds,          \* child processes really spawned, in order
  log,           \* console.log lines
  asked,         \* prompts shown to the operator
  yes,           \* the answer to the final confirmation
  err,           \* the error main() rejected with
  errOut,        \* console.error lines
  exitCode       \* process exit status, -1 while running

vars == <<args, pkg, manifest, writes, pc, release, targetVersion, tag, stdout,
          cmds, log, asked, yes, err, errOut, exitCode>>

\* pkg.name.replace(/^@tencent\//, '').replace('tds-vue-plugin-', '')
StripFirst(s, t) ==
  IF \E i \in 1..Len(s) : s[i] = t
  THEN LET k == CHOOSE i \in 1..Len(s) : s[i] = t /\ \A j \in 1..(i - 1) : s[j] # t
       IN SubSeq(s, 1, k - 1) \o SubSeq(s, k + 1, Len(s))
  ELSE s

pkgName ==
  LET a == IF Len(pkg.name) > 0 /\ pkg.name[1] = "@tencent/" THEN Tail(pkg.name)
           ELSE pkg.name
  IN StripFirst(a, "tds-vue-plugin-")

currentVersion == pkg.version

isDryRun == args.dry

skipBuild == args.skipBuild

versionIncrements ==
  <<"patch", "minor", "major", "prepatch", "preminor", "premajor", "prerelease">>

\* every increment taken as its prerelease variant
incAlwaysPre(i) ==
  semver_inc(currentVersion,
             CASE i = "patch" -> "prepatch"
               [] i = "minor" -> "preminor"
               [] i = "major" -> "premajor"
               [] OTHER -> i,
             "beta")

\* line 28
inc(i) == semver_inc(currentVersion, i, "beta")

Init ==
  /\ args \in [pos : {NoStr} \cup VersionInputs, dry : BOOLEAN,
               skipBuild : BOOLEAN, tag : {NoStr, S("next")}]
  /\ pkg \in [name : PkgNames, version : CurrentVersions]
  /\ manifest = pkg.version
  /\ writes = 0
  /\ pc = "main"
  /\ release = NoStr
  /\ targetVersion = NoStr
  /\ tag = NoStr
  /\ stdout = NoStr
  /\ cmds = <<>>
  /\ log = <<>>
  /\ asked = <<>>
  /\ yes = "unasked"
  /\ err = NoStr
  /\ errOut = <<>>
  /\ exitCode = -1

\* ------------------------------------------------------------- helpers
\* a spawned child process and how it ended
Proc(bin, a, ok, stderr) == [bin |-> bin, args |-> a, ok |-> ok, stderr |-> stderr]

\* run: execa(bin, args, ...) really spawns the process
run(bin, a, ok, stderr) == Append(cmds, Proc(bin, a, ok, stderr))

\* dryRun: the line console.log prints, the options object appended
dryRun(bin, a, opts) == <<"[dryrun] ", bin, " ">> \o Join(a, S(" ")) \o opts

\* runIfNotDry bound to run whatever the mode
runAlways(bin, a, ok, stderr) == run(bin, a, ok, stderr)

\* runIfNotDry = isDryRun ? dryRun : run -- the processes spawned ...
runIfNotDry(bin, a, ok, stderr) ==
  IF isDryRun THEN cmds ELSE run(bin, a, ok, stderr)

\* ... and the lines logged
runIfNotDryLog(bin, a, opts) ==
  IF isDryRun THEN <<dryRun(bin, a, opts)>> ELSE <<>>

\* how an awaited runIfNotDry call can end: the dry stub never rejects
Outcomes == IF isDryRun THEN {TRUE} ELSE BOOLEAN

\* step(msg)
step(msg) == <<S(msg)>>

\* the rejection of an execa child process
ProcError(bin, a) == <<"Command failed: ", bin, " ">> \o Join(a, S(" "))

\* const tag = pkgName === `${pkgName}@${targetVersion}`, as rendered
ReleaseTag(name, version) == BoolStr(name = name \o S("@") \o version)

\* the confirm prompt of line 120
ConfirmPrompt(t) ==
  [name |-> "yes", message |-> S("Releasing ") \o t \o S(". Confirm?"),
   choices |-> {}]

TagBetaPrompt ==
  [name |-> "tagBeta", message |-> S("Publish under dist-tag \"beta\"?"),
   choices |-> {}]

\* main() rejects with e; nothing else changes
Throw(e) ==
  /\ err' = e
  /\ pc' = "rejected"

\* release.match(/\((.*)\)/)![1]: the text between the first "(" and the
\* last ")" of the chosen title
MatchParens(title) ==
  LET a == CHOOSE i \in 1..Len(title) :
             title[i] = "(" /\ \A j \in 1..(i - 1) : title[j] # "("
      b == CHOOSE i \in 1..Len(title) :
             title[i] = ")" /\ \A j \in (i + 1)..Len(title) : title[j] # ")"
  IN SubSeq(title, a + 1, b - 1)

\* the choices of the select prompt: `${i} (${inc(i)})` for each increment,
\* then 'custom'
Choices ==
  {<<versionIncrements[k], " ", "(">> \o inc(versionIncrements[k]) \o <<")">> :
     k \in 1..Len(versionIncrements)} \cup { S("custom") }

\* the check of line 101 made on the presence of a version only
RejectedWhenEmpty(tv) == tv = NoStr

\* line 101: if (!semver.valid(targetVersion))
Rejected(tv) == ~Valid(tv)

\* lines 100-124: validate the resolved version, compute the tag, then show
\* the dist-tag prompt or the final confirmation
Resolve(tv) ==
  /\ targetVersion' = tv
  /\ IF Rejected(tv)
     THEN /\ Throw(S("invalid target version: ") \o tv)
          /\ UNCHANGED <<tag, asked>>
     ELSE /\ tag' = ReleaseTag(pkgName, tv)
          /\ err' = err
          /\ IF Includes(tv, S("beta")) /\ args.tag = NoStr
             THEN /\ asked' = Append(asked, TagBetaPrompt)
                  /\ pc' = "promptTagBeta"
             ELSE /\ asked' = Append(asked, ConfirmPrompt(tag'))
                  /\ pc' = "promptYes"

\* ------------------------------------------------------------- actions
\* lines 71-74: the positional argument, when given, is the target version
Start ==
  /\ pc = "main"
  /\ IF args.pos # NoStr
     THEN Resolve(args.pos)
     ELSE /\ pc' = "promptRelease"
          /\ asked' = Append(asked, [name |-> "release",
                                     message |-> S("Select release type"),
                                     choices |-> Choices])
          /\ UNCHANGED <<targetVersion, tag, err>>
  /\ UNCHANGED <<args, pkg, manifest, writes, release, stdout, cmds, log, yes,
                 errOut, exitCode>>

\* lines 76-98: the operator picks an increment or 'custom'
SelectRelease ==
  /\ pc = "promptRelease"
  /\ \E r \in Choices \cup {Undefined} :
       /\ release' = r
       /\ IF r = Undefined
          THEN /\ Throw(S("TypeError: Cannot read properties of undefined (reading 'match')"))
               /\ UNCHANGED <<targetVersion, tag, asked>>
          ELSE IF r = S("custom")
          THEN /\ pc' = "promptVersion"
               /\ asked' = Append(asked, [name |-> "version",
                                          message |-> S("Input custom version"),
                                          choices |-> {}])
               /\ UNCHANGED <<targetVersion, tag, err>>
          ELSE Resolve(MatchParens(r))
  /\ UNCHANGED <<args, pkg, manifest, writes, stdout, cmds, log, yes, errOut,
                 exitCode>>

\* lines 87-93: free-text version, the current version being the default
CustomVersion ==
  /\ pc = "promptVersion"
  /\ \E v \in VersionInputs \cup {currentVersion, Undefined} : Resolve(v)
  /\ UNCHANGED <<args, pkg, manifest, writes, release, stdout, cmds, log, yes,
                 errOut, exitCode>>

\* lines 110-124: the dist-tag answer, then the final confirmation is shown
TagBeta ==
  /\ pc = "promptTagBeta"
  /\ \E tagBeta \in BOOLEAN :
       args' = IF tagBeta THEN [args EXCEPT !.tag = S("beta")] ELSE args
  /\ asked' = Append(asked, ConfirmPrompt(tag))
  /\ pc' = "promptYes"
  /\ UNCHANGED <<pkg, manifest, writes, release, targetVersion, tag, stdout,
                 cmds, log, yes, err, errOut, exitCode>>

\* updateVersion(version): the version field of the file is overwritten
updateVersion(version) ==
  /\ manifest' = version
  /\ writes' = writes + 1

\* line 136: the build runs unless skipped or dry
BuildRuns == ~skipBuild /\ ~isDryRun

\* the return of line 127 left out
DeclinedIgnored(answer) == FALSE

\* lines 126-128: if (!yes) return
Declined(answer) == ~answer

\* lines 126-143: declined -> return; confirmed -> write the manifest and
\* go on to the build (or skip it) 
Confirm ==
  /\ pc = "promptYes"
  /\ \E answer \in BOOLEAN :
       /\ yes' = IF answer THEN "yes" ELSE "no"
       /\ IF Declined(answer)
          THEN /\ pc' = "resolved"
               /\ UNCHANGED <<manifest, writes, log>>
          ELSE /\ updateVersion(targetVersion)
               /\ IF BuildRuns
                  THEN /\ pc' = "build"
                       /\ log' = log \o step("Updating package version...")
                                     \o step("Building package...")
                  ELSE /\ pc' = "changelog"
                       /\ log' = log \o step("Updating package version...")
                                     \o step("Building package...")
                                     \o <<S("(skipped)")>>
                                     \o step("Generating changelog...")
  /\ UNCHANGED <<args, pkg, release, targetVersion, tag, stdout, cmds, asked,
                 err, errOut, exitCode>>

\* line 137: await run('pnpm', ['run', 'build'])
Build ==
  /\ pc = "build"
  /\ \E ok \in BOOLEAN :
       /\ cmds' = run("pnpm", <<S("run"), S("build")>>, ok, NoStr)
       /\ IF ok
          THEN /\ pc' = "changelog"
               /\ log' = log \o step("Generating changelog...")
               /\ err' = err
          ELSE /\ Throw(ProcError("pnpm", <<S("run"), S("build")>>))
               /\ log' = log
  /\ UNCHANGED <<args, pkg, manifest, writes, release, targetVersion, tag,
                 stdout, asked, yes, errOut, exitCode>>

\* line 144: await run('pnpm', ['run', 'changelog'])
Changelog ==
  /\ pc = "changelog"
  /\ \E ok \in BOOLEAN :
       /\ cmds' = run("pnpm", <<S("run"), S("changelog")>>, ok, NoStr)
       /\ IF ok
          THEN pc' = "diff" /\ err' = err
          ELSE Throw(ProcError("pnpm", <<S("run"), S("changelog")>>))
  /\ UNCHANGED <<args, pkg, manifest, writes, release, targetVersion, tag,
                 stdout, log, asked, yes, errOut, exitCode>>

\* the commit phase entered whatever git diff printed
HasChangesAlways(out) == TRUE

\* line 150: if (stdout)
HasChanges(out) == out # NoStr

\* lines 148-160: git diff; a non-empty output opens the commit phase
Diff ==
  /\ pc = "diff"
  /\ \E ok \in BOOLEAN, out \in {NoStr, S("diff --git a/package.json")} :
       /\ cmds' = run("git", <<S("diff")>>, ok, NoStr)
       /\ IF ~ok
          THEN /\ Throw(ProcError("git", <<S("diff")>>))
               /\ UNCHANGED <<stdout, log>>
          ELSE /\ stdout' = out
               /\ err' = err
               /\ IF HasChanges(out)
                  THEN /\ pc' = "gitAdd"
                       /\ log' = log \o step("Committing changes...")
                  ELSE /\ pc' = "publish"
                       /\ log' = log \o <<S("No changes to commit.")>>
                                     \o step("Publishing package...")
  /\ UNCHANGED <<args, pkg, manifest, writes, release, targetVersion, tag,
                 asked, yes, errOut, exitCode>>

\* an awaited runIfNotDry(bin, a) followed by the lines `after`
Await(bin, a, next, after) ==
  \E ok \in Outcomes :
    /\ cmds' = runIfNotDry(bin, a, ok, NoStr)
    /\ IF ok
       THEN /\ pc' = next
            /\ log' = log \o runIfNotDryLog(bin, a, S(" undefined")) \o after
            /\ err' = err
       ELSE /\ Throw(ProcError(bin, a))
            /\ log' = log

\* line 152
GitAdd ==
  /\ pc = "gitAdd"
  /\ Await("git", <<S("add"), S("-A")>>, "gitCommit", <<>>)
  /\ UNCHANGED <<args, pkg, manifest, writes, release, targetVersion, tag,
                 stdout, asked, yes, errOut, exitCode>>

\* line 153
GitCommit ==
  /\ pc = "gitCommit"
  /\ Await("git", <<S("commit"), S("-m"), S("release: ") \o tag>>, "gitTag", <<>>)
  /\ UNCHANGED <<args, pkg, manifest, writes, release, targetVersion, tag,
                 stdout, asked, yes, errOut, exitCode>>

\* lines 154-160
GitTag ==
  /\ pc = "gitTag"
  /\ Await("git", <<S("tag"), tag>>, "publish", step("Publishing package..."))
  /\ UNCHANGED <<args, pkg, manifest, writes, release, targetVersion, tag,
                 stdout, asked, yes, errOut, exitCode>>

\* lines 49-52: the arguments of the publish command
publicArgs(version) ==
  <<S("publish"), S("--no-git-tag-version"), S("--new-version"), version,
    S("--access"), S("public")>>
    \o (IF args.tag # NoStr THEN <<S("--tag"), args.tag>> ELSE <<>>)

\* the pattern of line 61 cut down to /published/
PublishedAnywhere(stderr) == Includes(stderr, S("published"))

\* line 61: e.stderr.match(/previously published/)
PreviouslyPublished(stderr) ==
  Includes(stderr, <<"previously", " ", "published">>)

\* lines 48-67 and 164: publishPackage, then the push phase opens
Publish ==
  /\ pc = "publish"
  /\ \E ok \in Outcomes, stderr \in Stderrs :
       /\ ok => stderr = NoStr
       /\ cmds' = runIfNotDry("yarn", publicArgs(targetVersion), ok, stderr)
       /\ IF ok
          THEN /\ log' = log
                    \o runIfNotDryLog("yarn", publicArgs(targetVersion),
                                      S(" { stdio: 'pipe' }"))
                    \o <<S("Successfully published ") \o pkgName \o S("@")
                           \o targetVersion>>
                    \o step("Pushing to GitHub...")
               /\ pc' = "pushTag"
               /\ err' = err
          ELSE IF PreviouslyPublished(stderr)
          THEN /\ log' = log \o <<S("Skipping already published: ") \o pkgName>>
                             \o step("Pushing to GitHub...")
               /\ pc' = "pushTag"
               /\ err' = err
          ELSE /\ Throw(ProcError("yarn", publicArgs(targetVersion)))
               /\ log' = log
  /\ UNCHANGED <<args, pkg, manifest, writes, release, targetVersion, tag,
                 stdout, asked, yes, errOut, exitCode>>

\* line 165
PushTag ==
  /\ pc = "pushTag"
  /\ Await("git", <<S("push"), S("origin"), S("refs/tags/") \o tag>>,
           "pushBranch", <<>>)
  /\ UNCHANGED <<args, pkg, manifest, writes, release, targetVersion, tag,
                 stdout, asked, yes, errOut, exitCode>>

\* lines 166-173: the branch push, the dry-run notice, and main() returns
PushBranch ==
  /\ pc = "pushBranch"
  /\ Await("git", <<S("push")>>, "resolved",
           (IF isDryRun
            THEN <<S("Dry run finished - run git diff to see package changes.")>>
            ELSE <<>>) \o <<NoStr>>)
  /\ UNCHANGED <<args, pkg, manifest, writes, release, targetVersion, tag,
                 stdout, asked, yes, errOut, exitCode>>

\* lines 175-177: main().catch((err) => console.error(err))
Catch ==
  /\ pc = "rejected"
  /\ errOut' = Append(errOut, err)
  /\ pc' = "caught"
  /\ UNCHANGED <<args, pkg, manifest, writes, release, targetVersion, tag,
                 stdout, cmds, log, asked, yes, err, exitCode>>

\* the status the process ends with once main()'s promise chain has settled:
\* the rejection was handled by the catch callback and process.exitCode is
\* never set
ExitStatus(state) == IF state = "rejected" THEN 1 ELSE 0

\* nothing is left to run: the process exits
Exit ==
  /\ pc \in {"resolved", "caught"}
  /\ exitCode' = ExitStatus(pc)
  /\ pc' = "exited"
  /\ UNCHANGED <<args, pkg, manifest, writes, release, targetVersion, tag,
                 stdout, cmds, log, asked, yes, err, errOut>>

Next ==
  \/ Start
  \/ SelectRelease
  \/ CustomVersion
  \/ TagBeta
  \/ Confirm
  \/ Build
  \/ Changelog
  \/ Diff
  \/ GitAdd
  \/ GitCommit
  \/ GitTag
  \/ Publish
  \/ PushTag
  \/ PushBranch
  \/ Catch
  \/ Exit

Spec == Init /\ [][Next]_vars

\* ------------------------------------------------------------- properties
IsCmd(c, bin, first) == c.bin = bin /\ c.args[1] = S(first)

Ran(bin, first) == \E i \in 1..Len(cmds) : IsCmd(cmds[i], bin, first)

RanOk(bin, first) == \E i \in 1..Len(cmds) : IsCmd(cmds[i], bin, first) /\ cmds[i].ok

Logged(line) == \E i \in 1..Len(log) : log[i] = line

Asked(name) == \E i \in 1..Len(asked) : asked[i].name = name

Settled == pc \in {"resolved", "caught", "exited"}

\* C1: once the operator has declined the final confirmation the run ends
\* without error: main() returns, nothing is printed as an error, the
\* manifest file has not been written and no external command was spawned.
C1_DeclineHasNoEffect ==
  yes = "no" =>
    /\ pc \in {"resolved", "exited"}
    /\ err = NoStr /\ errOut = <<>>
    /\ writes = 0 /\ manifest = pkg.version
    /\ cmds = <<>>
    /\ log = <<>>

C1_Witness == yes = "no" /\ pc = "exited" /\ Len(asked) = 3

\* the line a dry run prints for a command: the marker, the command name and
\* every argument, each preceded by a blank
RECURSIVE Spaced(_)
Spaced(a) == IF a = <<>> THEN <<>> ELSE S(" ") \o a[1] \o Spaced(Tail(a))

WouldRun(bin, a) ==
  \E i \in 1..Len(log) :
     /\ Len(log[i]) >= 2 + Len(Spaced(a))
     /\ SubSeq(log[i], 1, 2 + Len(Spaced(a))) = <<"[dryrun] ", bin>> \o Spaced(a)

\* main() is at one of the positions `at`, or has run to its end
Past(at) == pc \in at \/ (pc \in {"resolved", "exited"} /\ yes = "yes" /\ err = NoStr)

C2_PublishArgs ==
  <<S("publish"), S("--no-git-tag-version"), S("--new-version"), targetVersion,
    S("--access"), S("public")>>
    \o (IF args.tag = NoStr THEN <<>> ELSE <<S("--tag"), args.tag>>)

\* C2: in a dry run the only processes really spawned are the changelog
\* generation and git diff (no build, add, commit, tag, publish or push);
\* each of add, commit, tag, publish, tag push and branch push the run has
\* passed left a "[dryrun]" line with the command name and all arguments.
C2_DryRunMutatesNothing ==
  isDryRun =>
    /\ \A i \in 1..Len(cmds) :
         \/ cmds[i].bin = "pnpm" /\ cmds[i].args = <<S("run"), S("changelog")>>
         \/ cmds[i].bin = "git" /\ cmds[i].args = <<S("diff")>>
    /\ stdout # NoStr /\ Past({"gitCommit", "gitTag", "publish", "pushTag", "pushBranch"})
         => WouldRun("git", <<S("add"), S("-A")>>)
    /\ stdout # NoStr /\ Past({"gitTag", "publish", "pushTag", "pushBranch"})
         => WouldRun("git", <<S("commit"), S("-m"), S("release: ") \o tag>>)
    /\ stdout # NoStr /\ Past({"publish", "pushTag", "pushBranch"})
         => WouldRun("git", <<S("tag"), tag>>)
    /\ Past({"pushTag", "pushBranch"})
         => WouldRun("yarn", C2_PublishArgs)
    /\ Past({"pushBranch"})
         => WouldRun("git", <<S("push"), S("origin"), S("refs/tags/") \o tag>>)
    /\ Past({})
         => WouldRun("git", <<S("push")>>)

C2_Witness ==
  /\ isDryRun /\ ~skipBuild /\ pc = "exited" /\ yes = "yes" /\ err = NoStr
  /\ stdout # NoStr /\ Len(cmds) = 2 /\ Len(log) > 10

\* the publish process of this run, when it failed
PublishFailure == {i \in 1..Len(cmds) : cmds[i].bin = "yarn" /\ ~cmds[i].ok}

MentionsPreviouslyPublished(e) ==
  \E i \in 1..(Len(e) - 2) :
     e[i] = "previously" /\ e[i + 1] = " " /\ e[i + 2] = "published"

\* C3: after a failed publish, either its stderr mentions "previously
\* published", a skip line is logged, main() is not rejected by the publish
\* and the tag push is the next command (pending or spawned right after); or
\* it does not, main() is rejected with the publish failure and no push is
\* ever spawned.
C3_PublishFailure ==
  \A i \in PublishFailure :
    IF MentionsPreviouslyPublished(cmds[i].stderr)
    THEN /\ Logged(S("Skipping already published: ") \o pkgName)
         /\ err # ProcError("yarn", cmds[i].args)
         /\ IF i = Len(cmds) THEN pc = "pushTag"
            ELSE IsCmd(cmds[i + 1], "git", "push")
                   /\ cmds[i + 1].args[2] = S("origin")
    ELSE /\ err = ProcError("yarn", cmds[i].args)
         /\ pc \in {"rejected", "caught", "exited"}
         /\ i = Len(cmds)
         /\ ~Ran("git", "push")
         /\ ~Logged(S("Pushing to GitHub..."))

C3_Witness ==
  /\ PublishFailure # {}
  /\ \A i \in PublishFailure : MentionsPreviouslyPublished(cmds[i].stderr)
  /\ pc = "exited" /\ err = NoStr
  /\ Len(SelectSeq(cmds, LAMBDA c : IsCmd(c, "git", "push"))) = 2

\* C4: the process ends with status zero exactly when main() returned
\* (completion or declined confirmation) and with a non-zero status, the
\* error printed, whenever main() was rejected.
C4_ExitStatus ==
  pc = "exited" =>
    /\ err = NoStr => exitCode = 0
    /\ err # NoStr => exitCode # 0 /\ errOut = <<err>>

\* C5: the release identifier is the same in the confirmation prompt, the
\* commit message, the tag name and the pushed reference, and it carries the
\* package name and the target version.
C5_ReleaseIdentifier ==
  /\ \A i \in 1..Len(asked) :
       asked[i].name = "yes" =>
         asked[i].message = S("Releasing ") \o tag \o S(". Confirm?")
  /\ \A i \in 1..Len(cmds) :
       /\ IsCmd(cmds[i], "git", "commit") => cmds[i].args[3] = S("release: ") \o tag
       /\ IsCmd(cmds[i], "git", "tag") => cmds[i].args[2] = tag
       /\ IsCmd(cmds[i], "git", "push") /\ Len(cmds[i].args) = 3
            => cmds[i].args[3] = S("refs/tags/") \o tag
  /\ tag # NoStr => Includes(tag, pkgName) /\ Includes(tag, targetVersion)

\* C6: a target version that is not a valid semantic version rejects main()
\* before anything happens: no dist-tag or confirmation prompt, no manifest
\* write, no external command, no log line; and a version written to the
\* manifest is the validated target version.
C6_InvalidVersionAborts ==
  /\ ~Valid(targetVersion) =>
       /\ writes = 0 /\ manifest = pkg.version
       /\ cmds = <<>> /\ log = <<>>
       /\ ~Asked("tagBeta") /\ ~Asked("yes")
       /\ pc \notin {"main", "promptRelease", "promptVersion"} =>
            err # NoStr /\ pc \in {"rejected", "caught", "exited"}
  /\ writes > 0 => Valid(manifest) /\ manifest = targetVersion

C6_Witness ==
  /\ targetVersion = <<"01", ".", "2", ".", "3">>
  /\ err = S("invalid target version: ") \o targetVersion
  /\ pc = "exited"

\* C7: every candidate offered by the select prompt for a valid current
\* version is a valid semantic version greater than the current version.
C7_CandidatesGreater ==
  \A i \in 1..Len(asked) :
    asked[i].name = "release" /\ Valid(currentVersion) =>
      \A c \in asked[i].choices \ {S("custom")} :
         /\ Valid(MatchParens(c))
         /\ Gt(MatchParens(c), currentVersion)

V123 == <<"1", ".", "2", ".", "3">>

V124 == <<"1", ".", "2", ".", "4">>

V124beta0 == V124 \o <<"-", "beta", ".", "0">>

\* no --tag was passed (the explicit tag of the model is "next")
NoExplicitTag == args.tag # S("next")

Picked(kind) ==
  /\ currentVersion = V123 /\ args.pos = NoStr /\ NoExplicitTag
  /\ release # NoStr /\ release[1] = kind

\* C8 as stated: picking "patch" on 1.2.3 resolves to 1.2.4-beta.0, which
\* contains "beta", and the dist-tag question is asked.
C8_PatchIsBeta ==
  Picked("patch") =>
    /\ targetVersion = V124beta0
    /\ Includes(targetVersion, S("beta"))
    /\ Asked("tagBeta")

\* C8 amended: picking "patch" on 1.2.3 resolves to 1.2.4, which does not
\* contain "beta", so the dist-tag question is not asked and the confirmation
\* follows at once; the beta increment 1.2.4-beta.0, with the dist-tag
\* question, is what picking "prepatch" gives.
C8_PatchIsPlain ==
  /\ Picked("patch") =>
       /\ targetVersion = V124
       /\ ~Includes(targetVersion, S("beta"))
       /\ ~Asked("tagBeta") /\ Asked("yes")
  /\ Picked("prepatch") =>
       /\ targetVersion = V124beta0
       /\ Includes(targetVersion, S("beta"))
       /\ Asked("tagBeta")

C8_Witness == Picked("patch") /\ pc = "promptYes" /\ targetVersion = V124

\* C9: in a run that is not dry, the tag push is spawned only after a
\* successful git tag of the same name, and the branch push only after the
\* tag push has succeeded.
C9_PushOnlyCreatedTag ==
  ~isDryRun =>
    \A i \in 1..Len(cmds) :
      /\ IsCmd(cmds[i], "git", "push") /\ Len(cmds[i].args) = 3 =>
           \E j \in 1..(i - 1) :
              /\ IsCmd(cmds[j], "git", "tag") /\ cmds[j].ok
              /\ S("refs/tags/") \o cmds[j].args[2] = cmds[i].args[3]
      /\ IsCmd(cmds[i], "git", "push") /\ Len(cmds[i].args) = 1 =>
           \E j \in 1..(i - 1) :
              IsCmd(cmds[j], "git", "push") /\ Len(cmds[j].args) = 3 /\ cmds[j].ok

CommitCmds ==
  SelectSeq(cmds, LAMBDA c : c.bin = "git" /\ c.args[1] \in {S("add"), S("commit"), S("tag")})

DiffDone == RanOk("git", "diff")

\* C10: in a confirmed run that is not dry, git add, git commit and git tag
\* are spawned only when git diff printed something, in that order, each
\* after the one before it succeeded; once the commit phase is over all
\* three have run if the diff was non-empty, and if it was empty none has,
\* the phase logged only "No changes to commit." and publish is next.
C10_CommitIffDiff ==
  ~isDryRun /\ yes = "yes" =>
    /\ CommitCmds # <<>> => DiffDone /\ stdout # NoStr
    /\ Len(CommitCmds) <= 3
    /\ \A i \in 1..Len(CommitCmds) :
         /\ CommitCmds[i].args[1] = <<S("add"), S("commit"), S("tag")>>[i]
         /\ i < Len(CommitCmds) => CommitCmds[i].ok
    /\ DiffDone /\ stdout # NoStr /\ (pc = "publish" \/ Ran("yarn", "publish")) =>
         /\ Len(CommitCmds) = 3 /\ CommitCmds[3].ok
         /\ Logged(S("Committing changes..."))
         /\ ~Logged(S("No changes to commit."))
    /\ DiffDone /\ stdout = NoStr =>
         /\ CommitCmds = <<>>
         /\ Logged(S("No changes to commit."))
         /\ ~Logged(S("Committing changes..."))
         /\ IsCmd(cmds[Len(cmds)], "git", "diff") => pc = "publish"
         /\ ~IsCmd(cmds[Len(cmds)], "git", "diff") => Ran("yarn", "publish")

C10_Witness ==
  /\ ~isDryRun /\ yes = "yes" /\ DiffDone /\ stdout = NoStr
  /\ Ran("yarn", "publish") /\ pc = "exited"

====
